---- MODULE Spec2Model ----
(***************************************************************************)
(* Model of ripe.py, the RIPE full-text-search query tool: the pagination  *)
(* driver of main(), query_ripe_api, the two field extractors,             *)
(* convert_to_cidr, prepare_targets and the JSON / XML branches of         *)
(* output_results.                                                         *)
(*                                                                         *)
(* Strings.  A Python str is a sequence of characters; a character is a    *)
(* pair <<kind, n>>.  An IPv4 address literal ("192.0.2.0") is one         *)
(* character <<"ip", n>> carrying the address as a number, a decimal       *)
(* number is one character <<"num", n>>; the remaining characters are the  *)
(* space, the hyphen, the comma, the slash, the double quote, the          *)
(* backslash and a letter.  The empty str is <<>>.                         *)
(*                                                                         *)
(* Field and header names are TLA+ strings; str.lower() on them is the     *)
(* table Lower.                                                            *)
(***************************************************************************)
EXTENDS Integers, Sequences, FiniteSets, TLC

VARIABLES
    pc,                     \* main(): where the run is
    total_results,          \* main(): total_results
    next_start,             \* main(): the next value of the for loop's `start`
    outstanding,            \* the requests.get calls that have not returned
    requests,               \* every page request issued, in order: [start, rows]
    page_log,               \* per page request: what came back and what was extracted
    all_extracted_entries,  \* main(): all_extracted_entries
    output,                 \* what output_results rendered, <<>> while nothing
    probe_reply,            \* the HTTP reply the probe got, <<>> before it
    args,                   \* the parsed command line
    fn,                     \* the function applied in a single-function run
    arg,                    \* its arguments
    ret                     \* its result

vars == <<pc, total_results, next_start, outstanding, requests, page_log,
          all_extracted_entries, output, probe_reply, args, fn, arg, ret>>

driver_vars == <<pc, total_results, next_start, outstanding, requests, page_log,
                 all_extracted_entries, output, probe_reply, args>>

----------------------------------------------------------------------------
(* Bounds of the model *)

\* width of an address in bits (IPv4 has 32)
AddrBits == 3
\* longest run of spaces put around the parts of a range text
MaxPad == 1
\* longest free-form text over the small alphabet
MaxTextLen == 5

----------------------------------------------------------------------------
(* Characters and str methods *)

SP == <<" ", 0>>
HY == <<"-", 0>>
COMMA == <<",", 0>>
SLASH == <<"/", 0>>
LETTER == <<"x", 0>>
Ip(n) == <<"ip", n>>
Num(n) == <<"num", n>>

EMPTY == <<>>

\* n ** k
RECURSIVE Pow2(_)
Pow2(k) == IF k = 0 THEN 1 ELSE 2 * Pow2(k - 1)

AddrCount == Pow2(AddrBits)
Addrs == 0 .. (AddrCount - 1)

Last(s) == s[Len(s)]
Front(s) == SubSeq(s, 1, Len(s) - 1)

RECURSIVE rstrip(_)
rstrip(s) == IF s # <<>> /\ Last(s) = SP THEN rstrip(Front(s)) ELSE s

RECURSIVE lstrip(_)
lstrip(s) == IF s # <<>> /\ Head(s) = SP THEN lstrip(Tail(s)) ELSE s

\* mutant: only the leading spaces are removed
strip_left_only(s) == lstrip(s)

\* str.strip()
strip(s) == lstrip(rstrip(s))

\* whether sep occurs in s at position i
OccursAt(s, sep, i) ==
    /\ i + Len(sep) - 1 <= Len(s)
    /\ SubSeq(s, i, i + Len(sep) - 1) = sep

\* str.split(sep): the parts between the non-overlapping occurrences of sep,
\* found left to right
RECURSIVE split(_, _)
split(s, sep) ==
    LET hits == {i \in 1 .. Len(s) : OccursAt(s, sep, i)} IN
    IF hits = {} THEN <<s>>
    ELSE LET i == CHOOSE h \in hits : \A g \in hits : h <= g IN
         <<SubSeq(s, 1, i - 1)>> \o split(SubSeq(s, i + Len(sep), Len(s)), sep)

\* sep.join(parts)
RECURSIVE join(_, _)
join(sep, parts) ==
    IF parts = <<>> THEN <<>>
    ELSE IF Len(parts) = 1 THEN parts[1]
    ELSE parts[1] \o sep \o join(sep, Tail(parts))

----------------------------------------------------------------------------
(* convert_to_cidr *)

\* re.sub(r'\s*-\s*$', '', inetnum): the leftmost match ending at the end of
\* the text is the last hyphen with all the spaces around it
re_sub_trailing_hyphen(inetnum) ==
    LET t == rstrip(inetnum) IN
    IF t # <<>> /\ Last(t) = HY THEN rstrip(Front(t)) ELSE inetnum

\* netaddr.IPAddress(text): the text is one address literal of the address family
IsAddress(text) ==
    /\ Len(text) = 1
    /\ text[1][1] = "ip"
    /\ text[1][2] \in Addrs

\* the largest prefix block that starts at `first` and ends at or before `last`:
\* its size
RECURSIVE BlockSize(_, _, _)
BlockSize(first, last, size) ==
    IF /\ 2 * size <= AddrCount
       /\ first % (2 * size) = 0
       /\ first + 2 * size - 1 <= last
    THEN BlockSize(first, last, 2 * size)
    ELSE size

\* log2 of a power of two
RECURSIVE Log2(_)
Log2(n) == IF n <= 1 THEN 0 ELSE 1 + Log2(n \div 2)

\* netaddr: the CIDR blocks of the address range first..last, lowest first, as
\* <<network address, prefix length>>
RECURSIVE iprange_to_cidrs(_, _)
iprange_to_cidrs(first, last) ==
    IF first > last THEN <<>>
    ELSE LET size == BlockSize(first, last, 1) IN
         <<<<first, AddrBits - Log2(size)>>>> \o iprange_to_cidrs(first + size, last)

\* netaddr.cidr_merge(IPRange(first, last)): the addresses of the range, merged
cidr_merge(first, last) == iprange_to_cidrs(first, last)

\* str(block)
BlockStr(block) == <<Ip(block[1]), SLASH, Num(block[2])>>

\* mutant: the fallback returns no block at all
Fallback_nothing(inetnum, inetnum_clean) == <<>>

\* mutant: the fallback returns the cleaned text
Fallback_cleaned(inetnum, inetnum_clean) == <<inetnum_clean>>

\* lines 148-150: the except branch, [inetnum]
Fallback(inetnum, inetnum_clean) == <<inetnum>>

\* lines 141-150.  The try body raises when the split does not give two parts
\* (ValueError on unpacking), when a part is no address, and when start > end
\* (IPRange raises AddrFormatError).
convert_to_cidr(inetnum) ==
    LET inetnum_clean == re_sub_trailing_hyphen(inetnum)
        parts == split(inetnum_clean, <<SP, HY, SP>>)
    IN
    IF Len(parts) # 2 THEN Fallback(inetnum, inetnum_clean)
    ELSE LET start_ip == strip(parts[1])
             end_ip == strip(parts[2])
         IN
         IF ~IsAddress(start_ip) \/ ~IsAddress(end_ip)
         THEN Fallback(inetnum, inetnum_clean)
         ELSE IF start_ip[1][2] > end_ip[1][2] THEN Fallback(inetnum, inetnum_clean)
         ELSE LET cidr_blocks == cidr_merge(start_ip[1][2], end_ip[1][2]) IN
              [i \in 1 .. Len(cidr_blocks) |-> BlockStr(cidr_blocks[i])]

----------------------------------------------------------------------------
(* extract_fields_from_xml, extract_fields_from_json *)

\* None where a str is expected: Element.text of an element without text, the
\* result of dict.get for a key that is not there
None == <<<<"None", 0>>>>

\* a missing name (None) and the empty name are both falsy, and the code only
\* tests the name's truth: both are ""
NoName == ""

\* str.lower() on the field names that occur in responses and allow-lists
Lower(name) ==
    CASE name = "Inetnum" -> "inetnum"
      [] name = "NetName" -> "netname"
      [] OTHER -> name

\* filters is None or a list of names; the code only tests its truth before
\* using it, and None and [] are both falsy: None is <<>>
NoFilters == <<>>

InList(x, list) == \E i \in 1 .. Len(list) : list[i] = x

\* a dict: a function from its keys
EmptyDict == [k \in {} |-> EMPTY]

\* entry[key] = value
DictSet(entry, key, value) ==
    [k \in (DOMAIN entry) \cup {key} |-> IF k = key THEN value ELSE entry[k]]

\* entry.get(key, "")
DictGet(entry, key) == IF key \in DOMAIN entry THEN entry[key] ELSE EMPTY

\* lines 99-103: every filter field is present, "" where it was missing
RECURSIVE FillMissing(_, _)
FillMissing(entry, filters) ==
    IF filters = <<>> THEN entry
    ELSE FillMissing(
            IF Head(filters) \in DOMAIN entry THEN entry
            ELSE DictSet(entry, Head(filters), EMPTY),
            Tail(filters))

\* lines 91-98, the loop over a doc's <str> elements.  field.text.strip() raises
\* AttributeError when the element has no text (field.text is None).
\* The result is [raised, value].
RECURSIVE XmlFields(_, _, _)
XmlFields(fields, filters, entry) ==
    IF fields = <<>> THEN [raised |-> FALSE, value |-> entry]
    ELSE LET field == Head(fields)
             field_name == field.name
         IN
         IF field_name = NoName THEN XmlFields(Tail(fields), filters, entry)
         ELSE IF Lower(field_name) = "inetnum" THEN
             IF field.text = None THEN [raised |-> TRUE, value |-> EmptyDict]
             ELSE XmlFields(Tail(fields), filters,
                            DictSet(entry, "inetnum", strip(field.text)))
         ELSE IF filters = NoFilters \/ InList(Lower(field_name), filters) THEN
             IF field.text = None THEN [raised |-> TRUE, value |-> EmptyDict]
             ELSE XmlFields(Tail(fields), filters,
                            DictSet(entry, Lower(field_name), strip(field.text)))
         ELSE XmlFields(Tail(fields), filters, entry)

\* lines 88-105; docs are the <doc> elements of the response.
\* The result is [raised, value]: the exception flag and the list returned.
RECURSIVE XmlDocs(_, _, _)
XmlDocs(docs, filters, extracted_data) ==
    IF docs = <<>> THEN [raised |-> FALSE, value |-> extracted_data]
    ELSE LET got == XmlFields(Head(docs), filters, EmptyDict) IN
         IF got.raised THEN [raised |-> TRUE, value |-> <<>>]
         ELSE XmlDocs(Tail(docs), filters,
                      Append(extracted_data,
                             IF filters # NoFilters
                             THEN FillMissing(got.value, filters)
                             ELSE got.value))

extract_fields_from_xml(xml_response, filters) ==
    XmlDocs(xml_response.docs, filters, <<>>)

\* lines 118-126, the loop over a doc's "strs"
RECURSIVE JsonFields(_, _, _)
JsonFields(fields, filters, entry) ==
    IF fields = <<>> THEN entry
    ELSE LET field == Head(fields)
             field_name == field.name
             field_value == field.value
         IN
         IF field_name # NoName /\ field_value # None /\ field_value # EMPTY THEN
             IF Lower(field_name) = "inetnum" THEN
                 JsonFields(Tail(fields), filters,
                            DictSet(entry, "inetnum", strip(field_value)))
             ELSE IF filters = NoFilters \/ InList(Lower(field_name), filters) THEN
                 JsonFields(Tail(fields), filters,
                            DictSet(entry, Lower(field_name), strip(field_value)))
             ELSE JsonFields(Tail(fields), filters, entry)
         ELSE JsonFields(Tail(fields), filters, entry)

\* lines 114-133
RECURSIVE JsonDocs(_, _, _)
JsonDocs(docs, filters, extracted_data) ==
    IF docs = <<>> THEN [raised |-> FALSE, value |-> extracted_data]
    ELSE LET entry == JsonFields(Head(docs), filters, EmptyDict) IN
         JsonDocs(Tail(docs), filters,
                  Append(extracted_data,
                         IF filters # NoFilters THEN FillMissing(entry, filters)
                         ELSE entry))

extract_fields_from_json(json_response, filters) ==
    JsonDocs(json_response.docs, filters, <<>>)

----------------------------------------------------------------------------
(* prepare_targets *)

\* the lowercase field names in the order sorted() gives them
SortedNames == <<"descr", "inetnum", "netname">>

\* sorted(set of names)
sorted(names) == SelectSeq(SortedNames, LAMBDA n : n \in names)

\* lines 172-175 and 191-194: one cell
Cell(entry, field, cidr_flag) ==
    LET value == DictGet(entry, field) IN
    IF field = "inetnum" /\ cidr_flag /\ value # EMPTY
    THEN join(<<COMMA>>, convert_to_cidr(value))
    ELSE value

\* lines 170-176 and 189-195: the row of an entry under the headers
Row(entry, headers, cidr_flag) ==
    [i \in 1 .. Len(headers) |-> Cell(entry, headers[i], cidr_flag)]

\* mutant: the blank-row check lets every row through
AnyCell_always(row) == TRUE

\* lines 178 and 196: any(row)
AnyCell(row) == \E i \in 1 .. Len(row) : row[i] # EMPTY

\* line 168: all(not entry.get(field, "") for field in filters)
AllFilterFieldsEmpty(entry, filters) ==
    \A i \in 1 .. Len(filters) : DictGet(entry, filters[i]) = EMPTY

\* mutant: the emitted row is not remembered
SeenAfter_forgets(seen, row, unique_flag) == seen

\* lines 180-183 and 198-201: seen.add(row_tuple) when unique_flag is set
SeenAfter(seen, row, unique_flag) == IF unique_flag THEN seen \cup {row} ELSE seen

\* the loops of lines 166-184 (prefilter TRUE) and 188-202 (prefilter FALSE),
\* from entry number i on; seen is the set of row tuples emitted so far
RECURSIVE RowLoop(_, _, _, _, _, _, _, _)
RowLoop(entries, i, headers, prefilter, cidr_flag, unique_flag, seen, targets) ==
    IF i > Len(entries) THEN targets
    ELSE LET entry == entries[i] IN
         IF prefilter /\ AllFilterFieldsEmpty(entry, headers) THEN
             RowLoop(entries, i + 1, headers, prefilter, cidr_flag, unique_flag,
                     seen, targets)
         ELSE LET row == Row(entry, headers, cidr_flag) IN
              IF ~AnyCell(row) THEN
                  RowLoop(entries, i + 1, headers, prefilter, cidr_flag,
                          unique_flag, seen, targets)
              ELSE IF unique_flag /\ row \in seen THEN
                  RowLoop(entries, i + 1, headers, prefilter, cidr_flag,
                          unique_flag, seen, targets)
              ELSE
                  RowLoop(entries, i + 1, headers, prefilter, cidr_flag,
                          unique_flag,
                          SeenAfter(seen, row, unique_flag),
                          Append(targets, row))

prepare_targets(extracted_entries, filters, cidr_flag, unique_flag) ==
    IF filters # NoFilters THEN
        [headers |-> filters,
         targets |-> RowLoop(extracted_entries, 1, filters, TRUE, cidr_flag,
                             unique_flag, {}, <<>>)]
    ELSE
        LET headers ==
                sorted(UNION {DOMAIN extracted_entries[i] :
                                 i \in 1 .. Len(extracted_entries)})
        IN [headers |-> headers,
            targets |-> RowLoop(extracted_entries, 1, headers, FALSE, cidr_flag,
                                unique_flag, {}, <<>>)]

----------------------------------------------------------------------------
(* output_results: the json and xml branches *)

QUOTE == <<"\"", 0>>
BSL == <<"\\", 0>>

\* mutant: empty cells are left out of the object, as the list renderer does
RECURSIVE DictZip_skip_empty(_, _, _, _)
DictZip_skip_empty(headers, row, i, d) ==
    IF i > Len(headers) \/ i > Len(row) THEN d
    ELSE IF row[i] = EMPTY THEN DictZip_skip_empty(headers, row, i + 1, d)
    ELSE DictZip_skip_empty(headers, row, i + 1,
                 [keys |-> IF InList(headers[i], d.keys) THEN d.keys
                           ELSE Append(d.keys, headers[i]),
                  map |-> DictSet(d.map, headers[i], row[i])])

\* dict(zip(headers, row)): the keys in the order of their first insertion, a
\* repeated key keeps its place and takes the later value
RECURSIVE DictZip(_, _, _, _)
DictZip(headers, row, i, d) ==
    IF i > Len(headers) \/ i > Len(row) THEN d
    ELSE DictZip(headers, row, i + 1,
                 [keys |-> IF InList(headers[i], d.keys) THEN d.keys
                           ELSE Append(d.keys, headers[i]),
                  map |-> DictSet(d.map, headers[i], row[i])])

\* lines 331-338: data, a list of objects or of bare cells
JsonObject(d) == [kind |-> "object", keys |-> d.keys, map |-> d.map, str |-> EMPTY]
JsonString(chars) == [kind |-> "string", keys |-> <<>>, map |-> EmptyDict, str |-> chars]

JsonData(headers, rows) ==
    IF Len(headers) > 1 THEN
        [r \in 1 .. Len(rows) |->
            JsonObject(DictZip(headers, rows[r], 1, [keys |-> <<>>, map |-> EmptyDict]))]
    ELSE IF Len(headers) = 1 THEN
        [r \in 1 .. Len(rows) |-> JsonString(rows[r][1])]
    ELSE <<>>

\* a token of JSON text: punctuation, white space, or a string literal.  A
\* literal holds a header name (name) or the escaped characters of a cell (chars).
Punct(p) == [t |-> p, name |-> "", chars |-> EMPTY]
WS == Punct("ws")
NameLiteral(name) == [t |-> "name", name |-> name, chars |-> EMPTY]

\* json.dumps of a str: the double quote and the backslash are escaped
RECURSIVE Escape(_)
Escape(chars) ==
    IF chars = <<>> THEN <<>>
    ELSE IF Head(chars) \in {QUOTE, BSL} THEN <<BSL, Head(chars)>> \o Escape(Tail(chars))
    ELSE <<Head(chars)>> \o Escape(Tail(chars))

CharsLiteral(chars) == [t |-> "chars", name |-> "", chars |-> Escape(chars)]

\* "key": "value" members of an object, separated by commas and line breaks
RECURSIVE DumpMembers(_, _)
DumpMembers(keys, map) ==
    IF keys = <<>> THEN <<>>
    ELSE <<WS, NameLiteral(Head(keys)), Punct(":"), WS, CharsLiteral(map[Head(keys)])>>
         \o (IF Len(keys) > 1 THEN <<Punct(",")>> ELSE <<>>)
         \o DumpMembers(Tail(keys), map)

DumpItem(item) ==
    IF item.kind = "string" THEN <<CharsLiteral(item.str)>>
    ELSE IF item.keys = <<>> THEN <<Punct("{"), Punct("}")>>
    ELSE <<Punct("{")>> \o DumpMembers(item.keys, item.map) \o <<WS, Punct("}")>>

RECURSIVE DumpItems(_)
DumpItems(data) ==
    IF data = <<>> THEN <<>>
    ELSE <<WS>> \o DumpItem(Head(data))
         \o (IF Len(data) > 1 THEN <<Punct(",")>> ELSE <<>>)
         \o DumpItems(Tail(data))

\* json.dumps(data, indent=2)
json_dumps(data) ==
    IF data = <<>> THEN <<Punct("["), Punct("]")>>
    ELSE <<Punct("[")>> \o DumpItems(data) \o <<WS, Punct("]")>>

\* an Element: tag, text (None when never set), children
Element(tag) == [tag |-> tag, text |-> None, children |-> <<>>]

\* lines 346-347 and 349-350: ET.SubElement(target_elem, header) with its text set
FieldElem(header, value) == [tag |-> header, text |-> value, children |-> <<>>]

\* mutant: with one header the row's element is the field element itself
TargetElem_flat(headers, row) ==
    IF Len(headers) > 1 THEN
        [Element("Target") EXCEPT !.children =
            [i \in 1 .. Len(headers) |-> FieldElem(headers[i], row[i])]]
    ELSE IF Len(headers) = 1 THEN FieldElem(headers[1], row[1])
    ELSE Element("Target")

\* lines 343-350: the element appended to the root for one row
TargetElem(headers, row) ==
    IF Len(headers) > 1 THEN
        [Element("Target") EXCEPT !.children =
            [i \in 1 .. (IF Len(headers) < Len(row) THEN Len(headers) ELSE Len(row)) |->
                FieldElem(headers[i], row[i])]]
    ELSE IF Len(headers) = 1 THEN
        [Element("Target") EXCEPT !.children = <<FieldElem(headers[1], row[1])>>]
    ELSE Element("Target")

\* lines 341-350: the tree under Element("Targets")
XmlRoot(headers, rows) ==
    [tag |-> "Targets", text |-> None,
     children |-> [r \in 1 .. Len(rows) |-> TargetElem(headers, rows[r])]]

\* ET.tostring of the field elements of a row: an element without text is
\* written <tag />
TagToken(kind, tag) == [t |-> kind, name |-> tag, chars |-> EMPTY]
TextToken(chars) == [t |-> "text", name |-> "", chars |-> chars]

SerializeLeaf(elem) ==
    IF elem.text \in {None, EMPTY} THEN <<TagToken("empty", elem.tag)>>
    ELSE <<TagToken("open", elem.tag), TextToken(elem.text), TagToken("close", elem.tag)>>

RECURSIVE SerializeLeaves(_)
SerializeLeaves(elems) ==
    IF elems = <<>> THEN <<>>
    ELSE SerializeLeaf(Head(elems)) \o SerializeLeaves(Tail(elems))

SerializeTarget(elem) ==
    IF elem.children = <<>> THEN <<TagToken("empty", elem.tag)>>
    ELSE <<TagToken("open", elem.tag)>> \o SerializeLeaves(elem.children)
         \o <<TagToken("close", elem.tag)>>

RECURSIVE SerializeTargets(_)
SerializeTargets(elems) ==
    IF elems = <<>> THEN <<>>
    ELSE SerializeTarget(Head(elems)) \o SerializeTargets(Tail(elems))

\* ET.tostring(root, encoding='unicode')
ET_tostring(root) ==
    IF root.children = <<>> THEN <<TagToken("empty", root.tag)>>
    ELSE <<TagToken("open", root.tag)>> \o SerializeTargets(root.children)
         \o <<TagToken("close", root.tag)>>

\* lines 330-351: output_data for output_type json and xml, with the element
\* tree the xml text is written from
output_results(headers, rows, output_type) ==
    IF output_type = "json" THEN
        [output_type |-> "json", root |-> Element("none"),
         output_data |-> json_dumps(JsonData(headers, rows))]
    ELSE
        [output_type |-> "xml", root |-> XmlRoot(headers, rows),
         output_data |-> ET_tostring(XmlRoot(headers, rows))]

----------------------------------------------------------------------------
(* Runs of one function: the arguments are drawn in the initial state and  *)
(* the function is applied once.  The driver's variables stay idle.        *)

DriverIdle ==
    /\ pc = "idle"
    /\ total_results = 0
    /\ next_start = 0
    /\ outstanding = {}
    /\ requests = <<>>
    /\ page_log = <<>>
    /\ all_extracted_entries = <<>>
    /\ output = <<>>
    /\ probe_reply = <<>>
    /\ args = <<>>

\* all sequences over S of length at most n
RECURSIVE SeqsUpTo(_, _)
SeqsUpTo(S, n) ==
    IF n = 0 THEN {<<>>}
    ELSE LET shorter == SeqsUpTo(S, n - 1) IN
         shorter \cup {Append(s, x) : s \in shorter, x \in S}

Spaces(n) == [i \in 1 .. n |-> SP]

\* what may follow the end address
Tails ==
    {<<>>, <<SP>>, <<HY>>, <<SP, HY>>, <<SP, HY, SP>>, <<HY, SP>>,
     <<SP, HY, SP, HY>>, <<LETTER>>}

\* "<start> - <end>" texts, the addresses in and out of the address family,
\* in either order, with spaces and a trailing hyphen around them
ShapedTexts ==
    {Spaces(a) \o <<Ip(s)>> \o Spaces(b) \o <<SP, HY, SP>> \o Spaces(c)
        \o <<Ip(e)>> \o t :
        s \in 0 .. AddrCount, e \in 0 .. AddrCount,
        a \in 0 .. MaxPad, b \in 0 .. MaxPad, c \in 0 .. MaxPad, t \in Tails}

\* any short text
FreeTexts == SeqsUpTo({Ip(0), Ip(1), SP, HY, LETTER}, MaxTextLen)

RangeTexts == ShapedTexts \cup FreeTexts

InitCidr ==
    /\ DriverIdle
    /\ fn = "none"
    /\ arg \in RangeTexts
    /\ ret = <<>>

CallConvertToCidr ==
    /\ fn = "none"
    /\ fn' = "convert_to_cidr"
    /\ ret' = convert_to_cidr(arg)
    /\ UNCHANGED <<arg, driver_vars>>

NextCidr == CallConvertToCidr

SpecCidr == InitCidr /\ [][NextCidr]_vars

----------------------------------------------------------------------------
(* The CIDR Normalizer's contract, stated without the parsing steps *)

Squeeze(text) == SelectSeq(text, LAMBDA c : c # SP)

FirstHyphen(text) ==
    CHOOSE p \in 1 .. Len(text) :
        text[p] = HY /\ \A q \in 1 .. (p - 1) : text[q] # HY

\* the text reads "<start> - <end>": the two addresses, the hyphen between them
\* with a space on either side, any further spaces, at most one trailing hyphen
IsRangeText(text) ==
    LET q == Squeeze(text) IN
    /\ Len(q) \in {3, 4}
    /\ q[1][1] = "ip" /\ q[2] = HY /\ q[3][1] = "ip"
    /\ Len(q) = 4 => q[4] = HY
    /\ LET p == FirstHyphen(text) IN
       /\ 1 < p /\ p < Len(text)
       /\ text[p - 1] = SP /\ text[p + 1] = SP

RangeStart(text) == Squeeze(text)[1][2]
RangeEnd(text) == Squeeze(text)[3][2]

\* a valid range text: both addresses are addresses, start <= end
ValidRange(text) ==
    /\ IsRangeText(text)
    /\ RangeStart(text) \in Addrs /\ RangeEnd(text) \in Addrs
    /\ RangeStart(text) <= RangeEnd(text)

\* the str is the canonical form "address/prefixlen" of a CIDR block
IsBlockStr(str) ==
    /\ Len(str) = 3
    /\ str[1][1] = "ip" /\ str[2] = SLASH /\ str[3][1] = "num"
    /\ str[1][2] \in Addrs /\ str[3][2] \in 0 .. AddrBits
    /\ str[1][2] % Pow2(AddrBits - str[3][2]) = 0

\* the addresses of the block the str names
BlockAddrs(str) == str[1][2] .. (str[1][2] + Pow2(AddrBits - str[3][2]) - 1)

\* the least number of CIDR blocks whose union is first..last.  Two CIDR blocks
\* are nested or disjoint, so a least cover is a tiling, and the tile that holds
\* `first` starts there: the minimum over every aligned first tile.
RECURSIVE MinCover(_, _)
MinCover(first, last) ==
    IF first > last THEN 0
    ELSE LET sizes == {Pow2(k) : k \in 0 .. AddrBits}
             fits == {z \in sizes : first % z = 0 /\ first + z - 1 <= last}
             counts == {1 + MinCover(first + z, last) : z \in fits}
         IN CHOOSE n \in counts : \A m \in counts : n <= m

\* C6: for a valid range text with start <= end, convert_to_cidr returns CIDR
\* blocks that are pairwise non-overlapping, whose union is exactly the
\* addresses start..end, that are as few as any such cover, and that are
\* listed in ascending address order.
C6_MinimalCidrCover ==
    (fn = "convert_to_cidr" /\ ValidRange(arg)) =>
        /\ \A i \in 1 .. Len(ret) : IsBlockStr(ret[i])
        /\ \A i, j \in 1 .. Len(ret) :
               i # j => BlockAddrs(ret[i]) \cap BlockAddrs(ret[j]) = {}
        /\ UNION {BlockAddrs(ret[i]) : i \in 1 .. Len(ret)}
               = RangeStart(arg) .. RangeEnd(arg)
        /\ Len(ret) = MinCover(RangeStart(arg), RangeEnd(arg))
        /\ \A i \in 1 .. (Len(ret) - 1) : ret[i][1][2] < ret[i + 1][1][2]

\* a range that needs several blocks of different sizes, written with extra
\* spaces and a trailing hyphen
C6_Witness ==
    /\ fn = "convert_to_cidr"
    /\ ValidRange(arg)
    /\ RangeStart(arg) = 1 /\ RangeEnd(arg) = AddrCount - 2
    /\ Len(arg) > 5
    /\ Last(rstrip(arg)) = HY
    /\ Len(ret) >= 4

\* C7: for a range text that is not a valid range (malformed syntax, invalid
\* address, or end < start) convert_to_cidr returns the one-element list holding
\* the input text unchanged.
C7_FallbackIsInput ==
    (fn = "convert_to_cidr" /\ ~ValidRange(arg)) => ret = <<arg>>

\* end < start, with a trailing hyphen that the cleaning step removes
C7_Witness ==
    /\ fn = "convert_to_cidr"
    /\ IsRangeText(arg)
    /\ RangeStart(arg) \in Addrs /\ RangeEnd(arg) \in Addrs
    /\ RangeStart(arg) > RangeEnd(arg)
    /\ Last(arg) = HY
    /\ ret = <<arg>>

----------------------------------------------------------------------------
(* The two extractors on the two encodings of one logical response *)

\* most entries of a response, most fields of an entry
MaxDocs == 2
MaxFields == 2

\* a field value of a logical response: empty, missing (None), or text
LogicalValues == {EMPTY, None, <<LETTER>>, <<SP, LETTER, SP>>}

LogicalNames == {"Inetnum", "NetName", NoName}

LogicalFields == [name : LogicalNames, value : LogicalValues]

\* a logical response: a list of entries, each a list of (name, value) fields
LogicalResponses == SeqsUpTo(SeqsUpTo(LogicalFields, MaxFields), MaxDocs)

\* the markup encoding as ET.fromstring returns it: <str name="..">value</str>;
\* an element whose value is empty or missing has no text
XmlField(f) ==
    [name |-> f.name, text |-> IF f.value \in {EMPTY, None} THEN None ELSE f.value]

XmlEncoding(response) ==
    [docs |-> [d \in 1 .. Len(response) |->
                  [i \in 1 .. Len(response[d]) |-> XmlField(response[d][i])]]]

\* the nested-object encoding: {"name": .., "value": ..}, the key "value" absent
\* when the value is missing
JsonEncoding(response) == [docs |-> response]

AllowLists == {NoFilters, <<"netname">>, <<"inetnum", "netname">>, <<"descr">>}

NotCalled == [raised |-> FALSE, value |-> <<>>, called |-> FALSE]

Called(result) == [raised |-> result.raised, value |-> result.value, called |-> TRUE]

InitExtract ==
    /\ DriverIdle
    /\ fn = "none"
    /\ arg \in [response : LogicalResponses, filters : AllowLists]
    /\ ret = [xml |-> NotCalled, json |-> NotCalled]

CallExtractXml ==
    /\ ~ret.xml.called
    /\ fn' = "extract_fields_from_xml"
    /\ ret' = [ret EXCEPT !.xml =
                  Called(extract_fields_from_xml(XmlEncoding(arg.response), arg.filters))]
    /\ UNCHANGED <<arg, driver_vars>>

CallExtractJson ==
    /\ ~ret.json.called
    /\ fn' = "extract_fields_from_json"
    /\ ret' = [ret EXCEPT !.json =
                  Called(extract_fields_from_json(JsonEncoding(arg.response), arg.filters))]
    /\ UNCHANGED <<arg, driver_vars>>

NextExtract == CallExtractXml \/ CallExtractJson

SpecExtract == InitExtract /\ [][NextExtract]_vars

\* C8: for every logical response and every allow-list, the XML extractor on the
\* markup encoding and the JSON extractor on the nested-object encoding return
\* the same list of Records.
C8_SameRecords ==
    (ret.xml.called /\ ret.json.called) =>
        /\ ~ret.xml.raised
        /\ ~ret.json.raised
        /\ ret.xml.value = ret.json.value

\* the two extractors do agree when every named field has text
ExtractorsAgreeOnFullFields ==
    (/\ ret.xml.called /\ ret.json.called
     /\ \A d \in 1 .. Len(arg.response) : \A i \in 1 .. Len(arg.response[d]) :
            arg.response[d][i].name = NoName
            \/ arg.response[d][i].value \notin {EMPTY, None})
    => ret.xml = ret.json

----------------------------------------------------------------------------
(* The Row Builder on drawn Records *)

\* most Records in a run of the Row Builder
MaxEntries == 3

\* inetnum values: empty, two spellings of one range, a range of several
\* blocks, text that is no range
InetnumValues ==
    {EMPTY,
     <<Ip(2), SP, HY, SP, Ip(3)>>,
     <<Ip(2), SP, HY, SP, Ip(3), SP, HY>>,
     <<LETTER>>}

NetnameValues == {<<QUOTE, BSL>>}

\* the Records: inetnum and netname each absent or present, and the Record
\* whose only field is empty
Records ==
    {EmptyDict, DictSet(EmptyDict, "netname", EMPTY)}
    \cup {DictSet(EmptyDict, "inetnum", v) : v \in InetnumValues}
    \cup {DictSet(EmptyDict, "netname", v) : v \in NetnameValues}
    \cup {DictSet(DictSet(EmptyDict, "inetnum", v), "netname", w) :
             v \in InetnumValues, w \in NetnameValues}

\* allow-lists as main() builds them: lowercase names, duplicates kept
RowFilters ==
    {NoFilters, <<"inetnum">>, <<"netname", "inetnum">>,
     <<"inetnum", "descr", "inetnum">>}

InitRows ==
    /\ DriverIdle
    /\ fn = "none"
    /\ arg \in [entries : SeqsUpTo(Records, MaxEntries), filters : RowFilters,
                cidr_flag : BOOLEAN, unique_flag : BOOLEAN]
    /\ ret = <<>>

CallPrepareTargets ==
    /\ fn = "none"
    /\ fn' = "prepare_targets"
    /\ ret' = prepare_targets(arg.entries, arg.filters, arg.cidr_flag, arg.unique_flag)
    /\ UNCHANGED <<arg, driver_vars>>

NextRows == CallPrepareTargets

SpecRows == InitRows /\ [][NextRows]_vars

\* s is a subsequence of t: s can be matched into t left to right
RECURSIVE IsSubsequence(_, _)
IsSubsequence(s, t) ==
    IF s = <<>> THEN TRUE
    ELSE IF t = <<>> THEN FALSE
    ELSE IF Head(s) = Head(t) THEN IsSubsequence(Tail(s), Tail(t))
    ELSE IsSubsequence(s, Tail(t))

\* the position of the first occurrence of x in t
FirstIndex(x, t) == CHOOSE i \in 1 .. Len(t) : t[i] = x /\ \A j \in 1 .. (i - 1) : t[j] # x

\* C4: the rows returned with dedupe enabled are a subsequence of the rows
\* returned with dedupe disabled on the same input, hold no two equal rows
\* (compared after CIDR conversion), hold every row of the undeduplicated list,
\* and keep the distinct rows in the order of their first occurrences.
C4_DedupeSubsequence ==
    (fn = "prepare_targets" /\ arg.unique_flag) =>
        LET all == prepare_targets(arg.entries, arg.filters, arg.cidr_flag, FALSE).targets
            rows == ret.targets
        IN
        /\ IsSubsequence(rows, all)
        /\ \A i, j \in 1 .. Len(rows) : i # j => rows[i] # rows[j]
        /\ {rows[i] : i \in 1 .. Len(rows)} = {all[i] : i \in 1 .. Len(all)}
        /\ \A i, j \in 1 .. Len(rows) :
               i < j => FirstIndex(rows[i], all) < FirstIndex(rows[j], all)

\* two Records whose ranges are spelled differently give one row under CIDR
\* conversion, and a third row stays
C4_Witness ==
    /\ fn = "prepare_targets"
    /\ arg.unique_flag /\ arg.cidr_flag
    /\ Len(arg.entries) = 3
    /\ arg.filters # NoFilters
    /\ DictGet(arg.entries[1], "inetnum") # DictGet(arg.entries[2], "inetnum")
    /\ LET all == prepare_targets(arg.entries, arg.filters, arg.cidr_flag, FALSE).targets IN
       /\ Len(all) = 3
       /\ all[1] = all[2]
       /\ ret.targets = <<all[1], all[3]>>

\* C5: no row returned by the Row Builder has every cell empty, whatever the
\* allow-list, the CIDR flag and the dedupe flag.
C5_NoBlankRow ==
    fn = "prepare_targets" =>
        \A i \in 1 .. Len(ret.targets) :
            \E j \in 1 .. Len(ret.targets[i]) : ret.targets[i][j] # EMPTY

\* without an allow-list a Record with only an empty field is dropped and a
\* Record with a filled field is kept
C5_Witness ==
    /\ fn = "prepare_targets"
    /\ arg.filters = NoFilters
    /\ Len(arg.entries) = 2
    /\ DOMAIN arg.entries[1] = {"netname"}
    /\ arg.entries[1]["netname"] = EMPTY
    /\ Len(ret.targets) = 1
    /\ Len(ret.headers) = 2

----------------------------------------------------------------------------
(* The structured renderers on what the Row Builder returns *)

\* most Records in a rendered run
MaxRenderEntries == 2

InitRender ==
    /\ DriverIdle
    /\ fn = "none"
    /\ arg \in [entries : SeqsUpTo(Records, MaxRenderEntries), filters : RowFilters,
                cidr_flag : BOOLEAN, unique_flag : BOOLEAN]
    /\ ret = <<>>

\* main() lines 518-526 with --output-type json or xml
Render(output_type) ==
    /\ fn = "none"
    /\ fn' = "output_results"
    /\ LET built == prepare_targets(arg.entries, arg.filters, arg.cidr_flag,
                                    arg.unique_flag)
       IN ret' = [headers |-> built.headers, targets |-> built.targets,
                  out |-> output_results(built.headers, built.targets, output_type)]
    /\ UNCHANGED <<arg, driver_vars>>

RenderJson == Render("json")

RenderXml == Render("xml")

NextRender == RenderJson \/ RenderXml

SpecRender == InitRender /\ [][NextRender]_vars

\* the original wording of C9: with exactly one header the row-element's own
\* tag is the header name and its text is the cell, with no nested child
C9_AsClaimed ==
    (fn = "output_results" /\ ret.out.output_type = "xml") =>
        LET root == ret.out.root IN
        /\ Len(root.children) = Len(ret.targets)
        /\ Len(ret.headers) > 1 =>
               \A r \in 1 .. Len(ret.targets) :
                   /\ Len(root.children[r].children) = Len(ret.headers)
                   /\ \A i \in 1 .. Len(ret.headers) :
                          /\ root.children[r].children[i].tag = ret.headers[i]
                          /\ root.children[r].children[i].text = ret.targets[r][i]
                          /\ root.children[r].children[i].children = <<>>
        /\ Len(ret.headers) = 1 =>
               \A r \in 1 .. Len(ret.targets) :
                   /\ root.children[r].tag = ret.headers[1]
                   /\ root.children[r].text = ret.targets[r][1]
                   /\ root.children[r].children = <<>>

\* C9 (amended): in the XML renderer the root element has exactly one child
\* element per row; with more than one header each row-element contains one
\* child per header, named after the header with the cell as text; with exactly
\* one header the row-element is still tagged Target, has no text of its own,
\* and contains exactly one child, named after the header with the cell as text.
C9_XmlShape ==
    (fn = "output_results" /\ ret.out.output_type = "xml") =>
        LET root == ret.out.root IN
        /\ Len(root.children) = Len(ret.targets)
        /\ Len(ret.headers) > 1 =>
               \A r \in 1 .. Len(ret.targets) :
                   /\ Len(root.children[r].children) = Len(ret.headers)
                   /\ \A i \in 1 .. Len(ret.headers) :
                          /\ root.children[r].children[i].tag = ret.headers[i]
                          /\ root.children[r].children[i].text = ret.targets[r][i]
                          /\ root.children[r].children[i].children = <<>>
        /\ Len(ret.headers) = 1 =>
               \A r \in 1 .. Len(ret.targets) :
                   /\ root.children[r].tag = "Target"
                   /\ root.children[r].text = None
                   /\ Len(root.children[r].children) = 1
                   /\ root.children[r].children[1].tag = ret.headers[1]
                   /\ root.children[r].children[1].text = ret.targets[r][1]
                   /\ root.children[r].children[1].children = <<>>

\* one header and two rows
C9_Witness ==
    /\ fn = "output_results"
    /\ ret.out.output_type = "xml"
    /\ Len(ret.headers) = 1
    /\ Len(ret.targets) = 2
    /\ Len(ret.out.root.children) = 2
    /\ ret.out.root.children[1].children[1].tag = "inetnum"

\* json.loads of a str literal's characters
RECURSIVE Unescape(_)
Unescape(chars) ==
    IF chars = <<>> THEN <<>>
    ELSE IF Head(chars) = BSL THEN <<chars[2]>> \o Unescape(SubSeq(chars, 3, Len(chars)))
    ELSE <<Head(chars)>> \o Unescape(Tail(chars))

\* the members of an object from token i on: the object and the place after "}"
RECURSIVE ParseMembers(_, _, _)
ParseMembers(toks, i, obj) ==
    IF toks[i].t = "}" THEN [obj |-> obj, next |-> i + 1]
    ELSE IF toks[i].t = "," THEN ParseMembers(toks, i + 1, obj)
    ELSE ParseMembers(toks, i + 3,
                      DictSet(obj, toks[i].name, Unescape(toks[i + 2].chars)))

\* the items of the array from token i on
RECURSIVE ParseItems(_, _, _)
ParseItems(toks, i, items) ==
    IF toks[i].t = "]" THEN items
    ELSE IF toks[i].t = "," THEN ParseItems(toks, i + 1, items)
    ELSE IF toks[i].t = "chars" THEN
        ParseItems(toks, i + 1, Append(items, Unescape(toks[i].chars)))
    ELSE LET got == ParseMembers(toks, i + 1, EmptyDict) IN
         ParseItems(toks, got.next, Append(items, got.obj))

\* json.loads of an array of objects or of strings; white space is skipped
json_loads(text) ==
    ParseItems(SelectSeq(text, LAMBDA k : k.t # "ws"), 2, <<>>)

\* the key/value pairs of a parsed object
Pairs(obj) == {<<k, obj[k]>> : k \in DOMAIN obj}

\* C10: for every (headers, rows) the Row Builder produces with more than one
\* header, rendering to JSON and parsing it back yields a list with one object
\* per row, in row order, whose key/value pairs are exactly the pairs of
\* zip(headers, row) for that row.
C10_JsonRoundTrip ==
    (fn = "output_results" /\ ret.out.output_type = "json" /\ Len(ret.headers) > 1) =>
        LET parsed == json_loads(ret.out.output_data) IN
        /\ Len(parsed) = Len(ret.targets)
        /\ \A r \in 1 .. Len(ret.targets) :
               Pairs(parsed[r]) =
                   {<<ret.headers[i], ret.targets[r][i]>> : i \in 1 .. Len(ret.headers)}

\* an allow-list that repeats a header, two rows, a cell that holds a double
\* quote and a backslash, and an empty cell
C10_Witness ==
    /\ fn = "output_results"
    /\ ret.out.output_type = "json"
    /\ ret.headers = <<"inetnum", "descr", "inetnum">>
    /\ Len(ret.targets) = 2
    /\ ret.targets[1][2] = EMPTY
    /\ ret.targets[1] # ret.targets[2]

\* a second witness: a cell with characters that json.dumps escapes
C10_WitnessEscaped ==
    /\ fn = "output_results"
    /\ ret.out.output_type = "json"
    /\ Len(ret.headers) = 2
    /\ \E r \in 1 .. Len(ret.targets) : ret.targets[r][1] = <<QUOTE, BSL>>

----------------------------------------------------------------------------
(* query_ripe_api and main(): the probe, the pagination loop, the output *)

\* most full pages of results the registry reports
MaxPages == 2

rows_per_page == 100

\* the total counts a probe may report: around every page boundary, and below 0
NumFoundValues ==
    {-1} \cup {n \in 0 .. (MaxPages * rows_per_page + 1) :
                  n % rows_per_page \in {0, 1, rows_per_page - 1}}

\* numFound as the response holds it: absent, a number, or something else
NumFounds ==
    {[kind |-> "absent", n |-> 0], [kind |-> "junk", n |-> 0]}
    \cup {[kind |-> "number", n |-> n] : n \in NumFoundValues}

\* the body of a reply: whether it parses, whether the parsed document is empty
\* (a root element without children, the object {}), whether it has the result
\* container, the count, the entries
Body(wellformed, empty, hasResult, numFound, entries) ==
    [wellformed |-> wellformed, empty |-> empty, hasResult |-> hasResult,
     numFound |-> numFound, entries |-> entries]

NoBody == Body(FALSE, TRUE, FALSE, [kind |-> "absent", n |-> 0], <<>>)

ContentTypes == {"application/json", "application/xml", "text/xml", "text/html"}

\* what requests.get meets: a transport failure, an HTTP error status, or a
\* reply with a content type and a body
Reply(net, ctype, body) == [net |-> net, ctype |-> ctype, body |-> body]

FailedReplies == {Reply("error", "", NoBody), Reply("http_error", "text/html", NoBody)}

ProbeBodies ==
    {NoBody, Body(TRUE, TRUE, FALSE, [kind |-> "absent", n |-> 0], <<>>)}
    \cup {Body(TRUE, FALSE, FALSE, [kind |-> "absent", n |-> 0], <<>>)}
    \cup {Body(TRUE, FALSE, TRUE, nf, <<>>) : nf \in NumFounds}

ProbeReplies ==
    FailedReplies \cup {Reply("ok", "text/html", NoBody)}
    \cup {Reply("ok", c, b) : c \in ContentTypes \ {"text/html"}, b \in ProbeBodies}

\* a page's count is never read: it is junk in every page body
PageBody(entries) == Body(TRUE, FALSE, TRUE, [kind |-> "junk", n |-> 0], entries)

EmptyDocument == Body(TRUE, TRUE, FALSE, [kind |-> "absent", n |-> 0], <<>>)

\* the replies to a page request: a transport failure; an unexpected content
\* type; JSON that does not parse, the object {}, JSON with entries; XML that
\* does not parse, XML with entries, XML with an entry whose field has no text
PageReplies ==
    {Reply("error", "", NoBody),
     Reply("ok", "text/html", NoBody),
     Reply("ok", "application/json", NoBody),
     Reply("ok", "application/json", EmptyDocument),
     Reply("ok", "application/json",
           PageBody(<<<<[name |-> "netname", value |-> <<SP, LETTER>>]>>,
                      <<[name |-> "inetnum", value |-> <<LETTER>>]>>>>)),
     Reply("ok", "text/xml", NoBody),
     Reply("ok", "text/xml",
           PageBody(<<<<[name |-> "Inetnum", value |-> <<Ip(2), SP, HY, SP, Ip(3)>>],
                        [name |-> "NetName", value |-> <<LETTER>>]>>>>)),
     Reply("ok", "application/xml",
           PageBody(<<<<[name |-> "inetnum", value |-> EMPTY]>>>>))}

\* the parsed response: an Element, a dict, or None
NoResponse ==
    [type |-> "None", empty |-> TRUE, hasResult |-> FALSE,
     numFound |-> [kind |-> "absent", n |-> 0], docs |-> <<>>]

\* lines 63-79.  A transport failure, an HTTP error status and a JSON body that
\* does not parse are requests.exceptions.RequestException (JSONDecodeError is
\* one since requests 2.27): caught, None.  ET.fromstring on a body that is not
\* XML raises ParseError, which nothing catches.  The result is [raised, value].
query_ripe_api(reply) ==
    IF reply.net # "ok" THEN [raised |-> FALSE, value |-> NoResponse]
    ELSE IF reply.ctype = "application/json" THEN
        IF ~reply.body.wellformed THEN [raised |-> FALSE, value |-> NoResponse]
        ELSE [raised |-> FALSE,
              value |-> [type |-> "dict", empty |-> reply.body.empty,
                         hasResult |-> reply.body.hasResult,
                         numFound |-> reply.body.numFound,
                         docs |-> JsonEncoding(reply.body.entries).docs]]
    ELSE IF reply.ctype \in {"application/xml", "text/xml"} THEN
        IF ~reply.body.wellformed THEN [raised |-> TRUE, value |-> NoResponse]
        ELSE [raised |-> FALSE,
              value |-> [type |-> "Element", empty |-> reply.body.empty,
                         hasResult |-> reply.body.hasResult,
                         numFound |-> reply.body.numFound,
                         docs |-> XmlEncoding(reply.body.entries).docs]]
    ELSE [raised |-> FALSE, value |-> NoResponse]

\* `not response`: None, an Element without children, the dict {}
Falsy(response) == response.type = "None" \/ response.empty

\* mutant: a count that is no number is read as 0 instead of raising
ReadTotal_lenient(initial_response) ==
    IF initial_response.type = "Element" /\ ~initial_response.hasResult
    THEN [raised |-> TRUE, total |-> 0]
    ELSE IF initial_response.hasResult /\ initial_response.numFound.kind = "number"
    THEN [raised |-> FALSE, total |-> initial_response.numFound.n]
    ELSE [raised |-> FALSE, total |-> 0]

\* lines 477-485 and the range() of line 493: the total count read from the
\* probe's response, [raised, total].  XML: find(".//result") is None without a
\* result element (AttributeError); int() of an attribute that is no number
\* raises ValueError; a missing attribute is 0.  JSON: missing keys give 0; a
\* numFound that is no integer makes range() raise TypeError.
ReadTotal(initial_response) ==
    IF initial_response.type = "Element" THEN
        IF ~initial_response.hasResult THEN [raised |-> TRUE, total |-> 0]
        ELSE IF initial_response.numFound.kind = "junk" THEN [raised |-> TRUE, total |-> 0]
        ELSE IF initial_response.numFound.kind = "absent" THEN [raised |-> FALSE, total |-> 0]
        ELSE [raised |-> FALSE, total |-> initial_response.numFound.n]
    ELSE
        IF ~initial_response.hasResult THEN [raised |-> FALSE, total |-> 0]
        ELSE IF initial_response.numFound.kind = "junk" THEN [raised |-> TRUE, total |-> 0]
        ELSE IF initial_response.numFound.kind = "absent" THEN [raised |-> FALSE, total |-> 0]
        ELSE [raised |-> FALSE, total |-> initial_response.numFound.n]

\* mutant: the loop also runs for start = total
InRange_inclusive(start, total) == start <= total

\* line 493: whether range(0, total_results, rows_per_page) yields `start`
InRange(start, total) == start < total

\* mutant: a failed page ends the run as a failed probe does
AfterFailedPage_abort == "exit1"

\* lines 497-499 and 507-509: a page whose response is falsy is logged and the
\* loop continues
AfterFailedPage == "loop"

\* the command lines: --filter, --cidr, --unique, --output-type json or xml
CommandLines ==
    [filters : {NoFilters, <<"inetnum", "netname">>},
     cidr : {TRUE}, unique : {TRUE}, output_type : {"json", "xml"}]

Init ==
    /\ pc = "start"
    /\ total_results = 0
    /\ next_start = 0
    /\ outstanding = {}
    /\ requests = <<>>
    /\ page_log = <<>>
    /\ all_extracted_entries = <<>>
    /\ output = <<>>
    /\ probe_reply = <<>>
    /\ args \in CommandLines
    /\ fn = "main"
    /\ arg = <<>>
    /\ ret = <<>>

\* line 472: the probe is sent, start=0, rows=1
ProbeRequest ==
    /\ pc = "start"
    /\ outstanding' = outstanding \cup {[start |-> 0, rows |-> 1]}
    /\ pc' = "probe_wait"
    /\ UNCHANGED <<total_results, next_start, requests, page_log,
                   all_extracted_entries, output, probe_reply, args, fn, arg, ret>>

\* lines 472-493: the probe returns
ProbeResponse ==
    /\ pc = "probe_wait"
    /\ \E reply \in ProbeReplies :
        LET got == query_ripe_api(reply)
            initial_response == got.value
            read == ReadTotal(initial_response)
        IN
        /\ probe_reply' = reply
        /\ outstanding' = {}
        /\ IF got.raised THEN
               /\ pc' = "crashed"
               /\ UNCHANGED total_results
           ELSE IF Falsy(initial_response) THEN
               /\ pc' = "exit1"
               /\ UNCHANGED total_results
           ELSE IF read.raised THEN
               /\ pc' = "crashed"
               /\ UNCHANGED total_results
           ELSE
               /\ pc' = "loop"
               /\ total_results' = read.total
    /\ UNCHANGED <<next_start, requests, page_log, all_extracted_entries, output,
                   args, fn, arg, ret>>

\* lines 493-495: the loop takes its next `start` and sends the page request
PageRequest ==
    /\ pc = "loop"
    /\ InRange(next_start, total_results)
    /\ requests' = Append(requests, [start |-> next_start, rows |-> rows_per_page])
    /\ outstanding' = outstanding \cup {[start |-> next_start, rows |-> rows_per_page]}
    /\ pc' = "page_wait"
    /\ UNCHANGED <<total_results, next_start, page_log, all_extracted_entries,
                   output, probe_reply, args, fn, arg, ret>>

\* lines 495-511: the page returns
PageResponse ==
    /\ pc = "page_wait"
    /\ \E reply \in PageReplies :
        LET got == query_ripe_api(reply)
            response == got.value
            extracted == IF response.type = "Element"
                         THEN extract_fields_from_xml(response, args.filters)
                         ELSE extract_fields_from_json(response, args.filters)
        IN
        /\ page_log' = Append(page_log, [start |-> next_start, reply |-> reply])
        /\ outstanding' = {}
        /\ IF got.raised THEN
               /\ pc' = "crashed"
               /\ UNCHANGED <<next_start, all_extracted_entries>>
           ELSE IF Falsy(response) THEN
               /\ pc' = AfterFailedPage
               /\ next_start' = next_start + rows_per_page
               /\ UNCHANGED all_extracted_entries
           ELSE IF extracted.raised THEN
               /\ pc' = "crashed"
               /\ UNCHANGED <<next_start, all_extracted_entries>>
           ELSE
               /\ pc' = "loop"
               /\ next_start' = next_start + rows_per_page
               /\ all_extracted_entries' = all_extracted_entries \o extracted.value
    /\ UNCHANGED <<total_results, requests, output, probe_reply, args, fn, arg, ret>>

\* lines 513-526: the loop is over
Finish ==
    /\ pc = "loop"
    /\ ~InRange(next_start, total_results)
    /\ IF all_extracted_entries = <<>> THEN
           /\ pc' = "exit0"
           /\ UNCHANGED output
       ELSE
           LET built == prepare_targets(all_extracted_entries, args.filters,
                                        args.cidr, args.unique)
           IN
           /\ pc' = "done"
           /\ output' = output_results(built.headers, built.targets,
                                       args.output_type).output_data
    /\ UNCHANGED <<total_results, next_start, outstanding, requests, page_log,
                   all_extracted_entries, probe_reply, args, fn, arg, ret>>

Next == ProbeRequest \/ ProbeResponse \/ PageRequest \/ PageResponse \/ Finish

Spec == Init /\ [][Next]_vars

----------------------------------------------------------------------------
(* The Pagination Driver's contract *)

\* the run is over
Terminal == pc \in {"exit1", "exit0", "crashed", "done"}

\* the run went through the whole pagination loop
Paginated == pc \in {"exit0", "done"}

\* the number of multiples of the page size that are >= 0 and below n
OffsetCount(n) == IF n <= 0 THEN 0 ELSE ((n - 1) \div rows_per_page) + 1

C1_WitnessZero ==
    /\ pc = "exit0"
    /\ probe_reply.body.numFound = [kind |-> "number", n |-> 0]
    /\ requests = <<>>

\* the probe's reply is a transport failure or an HTTP error
ProbeFailed(reply) == reply.net # "ok"

\* the probe's reply is neither XML nor JSON by content type, does not parse,
\* or parses to a document with nothing in it
ProbeUnrecognized(reply) ==
    /\ reply.net = "ok"
    /\ \/ reply.ctype \notin {"application/json", "application/xml", "text/xml"}
       \/ ~reply.body.wellformed
       \/ reply.body.empty

\* the probe's reply is a recognized document whose total count is given but is
\* no number, or an XML document without the result element that carries it
CountUnparsable(reply) ==
    /\ ~ProbeFailed(reply) /\ ~ProbeUnrecognized(reply)
    /\ \/ reply.body.hasResult /\ reply.body.numFound.kind = "junk"
       \/ ~reply.body.hasResult /\ reply.ctype # "application/json"

\* the probe's reply is a recognized document that gives no total count: the
\* numFound attribute or key is absent, or the JSON object has no result
CountAbsent(reply) ==
    /\ ~ProbeFailed(reply) /\ ~ProbeUnrecognized(reply)
    /\ \/ reply.body.hasResult /\ reply.body.numFound.kind = "absent"
       \/ ~reply.body.hasResult /\ reply.ctype = "application/json"

ProbeHandled == pc \notin {"start", "probe_wait"}

NothingProduced ==
    /\ requests = <<>>
    /\ all_extracted_entries = <<>>
    /\ output = <<>>

\* the original wording of C2: a probe that fails, is unrecognized, or whose
\* total count cannot be read (absent or unparsable) always aborts the run
C2_AsClaimed ==
    (/\ ProbeHandled
     /\ \/ ProbeFailed(probe_reply)
        \/ ProbeUnrecognized(probe_reply)
        \/ CountUnparsable(probe_reply)
        \/ CountAbsent(probe_reply))
    => (pc \in {"exit1", "crashed"} /\ NothingProduced)

\* C2 (amended): if the probe fails, returns an unrecognized response shape, or
\* carries a total count that is present but cannot be used as an integer (or,
\* in XML, no result element), the run aborts with a fatal error before any page request, any
\* record and any renderer output.  If the count is merely absent from a
\* recognized response it is read as 0: still no page request is issued, no
\* record accumulated and no output rendered, but the run ends through the
\* successful "no data" exit.
C2_ProbeAbort ==
    /\ (/\ ProbeHandled
        /\ \/ ProbeFailed(probe_reply)
           \/ ProbeUnrecognized(probe_reply)
           \/ CountUnparsable(probe_reply))
       => (pc \in {"exit1", "crashed"} /\ NothingProduced)
    /\ (ProbeHandled /\ CountAbsent(probe_reply))
       => (pc \in {"loop", "exit0"} /\ total_results = 0 /\ NothingProduced)

\* a probe answered with a content type that is neither XML nor JSON
C2_Witness ==
    /\ pc = "exit1"
    /\ probe_reply.net = "ok"
    /\ probe_reply.ctype = "text/html"

\* a probe whose XML result element has no numFound: the no-data exit
C2_WitnessAbsent ==
    /\ pc = "exit0"
    /\ probe_reply.ctype = "text/xml"
    /\ probe_reply.body.hasResult
    /\ probe_reply.body.numFound.kind = "absent"

\* a page request failed: a transport failure or HTTP error (a JSON body that
\* does not parse is reported by the transport library as one), or a content
\* type that is neither XML nor JSON
PageFailed(reply) ==
    \/ reply.net # "ok"
    \/ reply.ctype \notin {"application/json", "application/xml", "text/xml"}
    \/ reply.ctype = "application/json" /\ ~reply.body.wellformed

\* the Records of a page that did not fail
PageRecords(reply, filters) ==
    IF reply.ctype = "application/json"
    THEN extract_fields_from_json(JsonEncoding(reply.body.entries), filters)
    ELSE extract_fields_from_xml(XmlEncoding(reply.body.entries), filters)

\* the Records of the pages of the log that did not fail, in log order
RECURSIVE Accumulated(_, _)
Accumulated(log, filters) ==
    IF log = <<>> THEN <<>>
    ELSE Accumulated(Front(log), filters)
         \o (IF PageFailed(Last(log).reply) THEN <<>>
             ELSE PageRecords(Last(log).reply, filters).value)

----------------------------------------------------------------------------
(* The two gates of the allow-list branch of prepare_targets *)

\* the loop of lines 166-184 with each gate switchable: use_prefilter is the
\* check of line 168, use_rowcheck the check of line 178
RECURSIVE GatedRows(_, _, _, _, _, _, _, _, _)
GatedRows(entries, i, filters, use_prefilter, use_rowcheck, cidr_flag, unique_flag, seen, targets) ==
    IF i > Len(entries) THEN targets
    ELSE LET entry == entries[i]
             row == Row(entry, filters, cidr_flag)
             skipped ==
                 \/ use_prefilter /\ AllFilterFieldsEmpty(entry, filters)
                 \/ use_rowcheck /\ \A j \in 1 .. Len(row) : row[j] = EMPTY
                 \/ unique_flag /\ row \in seen
         IN
         IF skipped THEN
             GatedRows(entries, i + 1, filters, use_prefilter, use_rowcheck,
                       cidr_flag, unique_flag, seen, targets)
         ELSE
             GatedRows(entries, i + 1, filters, use_prefilter, use_rowcheck,
                       cidr_flag, unique_flag,
                       IF unique_flag THEN seen \cup {row} ELSE seen,
                       Append(targets, row))

\* the rows for an input with the chosen gates
RowsWithGates(a, use_prefilter, use_rowcheck) ==
    GatedRows(a.entries, 1, a.filters, use_prefilter, use_rowcheck, a.cidr_flag,
              a.unique_flag, {}, <<>>)

\* the inputs of the Row Builder with a non-empty allow-list
GateInputs ==
    [entries : SeqsUpTo(Records, MaxEntries), filters : RowFilters \ {NoFilters},
     cidr_flag : BOOLEAN, unique_flag : BOOLEAN]

\* the original wording of C11: around any call of the Row Builder, for each
\* of the two checks some input exists for which removing that check alone
\* changes the returned rows
C11_AsClaimed ==
    fn \in {"none", "prepare_targets"} =>
    /\ \E a \in GateInputs :
           RowsWithGates(a, FALSE, TRUE)
               # prepare_targets(a.entries, a.filters, a.cidr_flag, a.unique_flag).targets
    /\ \E a \in GateInputs :
           RowsWithGates(a, TRUE, FALSE)
               # prepare_targets(a.entries, a.filters, a.cidr_flag, a.unique_flag).targets

\* C11 (amended): with a non-empty allow-list the Record pre-filter and the
\* later row check are both applied, but they are equivalent gates: a cell is
\* empty after CIDR conversion exactly when its field is empty, so for every
\* input (records, allow-list, CIDR flag, dedupe flag) removing either check
\* alone leaves the returned rows unchanged.
C11_GatesRedundant ==
    (fn = "prepare_targets" /\ arg.filters # NoFilters) =>
        /\ ret.targets = RowsWithGates(arg, TRUE, TRUE)
        /\ ret.targets = RowsWithGates(arg, FALSE, TRUE)
        /\ ret.targets = RowsWithGates(arg, TRUE, FALSE)

\* CIDR conversion is on, a Record whose allow-listed fields are all empty is
\* dropped, a Record whose inetnum is no range is kept, and the rows change
\* only when both checks are removed
C11_Witness ==
    /\ fn = "prepare_targets"
    /\ arg.filters = <<"netname", "inetnum">>
    /\ arg.cidr_flag
    /\ Len(arg.entries) = 2
    /\ AllFilterFieldsEmpty(arg.entries[1], arg.filters)
    /\ DictGet(arg.entries[2], "inetnum") = <<LETTER>>
    /\ Len(ret.targets) = 1
    /\ RowsWithGates(arg, FALSE, FALSE) # ret.targets

====
